---- MODULE Spec2Model ----
(***************************************************************************)
(* Model of the talk-to-me web client (client/web/src).                    *)
(*                                                                         *)
(* Part I  - the audio routing effect of components/party.tsx: the host    *)
(*           resolution effect, the routing effect with its closure        *)
(*           (isHost, remoteParticipants), handleTrackMuting and           *)
(*           setRemoteTrackMuted, driven by the room's events.             *)
(* Part II - the transcription stores: the transcript log of               *)
(*           components/transcript-log.tsx and the caption store of        *)
(*           components/captions.tsx.                                      *)
(* Part III - the per-participant index of hooks/useTranscriptions.ts, the *)
(*           session reducer of hooks/usePartyState.ts and what the log    *)
(*           and the caption view show.                                    *)
(* Part IV - the fetch of the language list (getLanguages).                *)
(* Part V  - mounting and teardown of the components.                      *)
(***************************************************************************)
EXTENDS Integers, Sequences, FiniteSets, TLC

(***************************************************************************)
(* Bounds of the model.                                                    *)
(***************************************************************************)
\* number of remote human participants that may join (besides the agent)
MaxHumans == 1
\* number of playback elements that may be attached to one remote track
MaxElements == 1
\* number of transcription batches delivered after the optional bulk batch
MaxDeliveries == 2
\* number of times the language-list effect calls getLanguages
MaxRuns == 2

(***************************************************************************)
(* Part I.  Participants, publications, tracks.                            *)
(***************************************************************************)
\* room.localParticipant
LocalP == "local"
\* the reserved identity of the synthesized-translation voice
AgentP == "agent"
HumanNames == <<"alice", "bob", "carol", "dave">>
HumanIds == {HumanNames[i] : i \in 1..MaxHumans}
\* every participant that can ever be in room.remoteParticipants
RemoteIds == {AgentP} \cup HumanIds
\* the value of the `host` state before any setHost
NoHost == "undefined"
\* a `host` state that still holds the Participant object of somebody who left
Departed == "departed"
\* no trackSubscribed handler of the routing effect is registered
NoHandler == [registered |-> FALSE, isHost |-> FALSE, remoteParticipants |-> <<>>]

\* a participant without an audio publication
NoPub == [published |-> FALSE, audioTrack |-> FALSE, volume |-> 1, attachedElements |-> <<>>]
\* a publication whose track is not subscribed yet (publication.audioTrack undefined)
NewPub == [published |-> TRUE, audioTrack |-> FALSE, volume |-> 1, attachedElements |-> <<>>]

VARIABLES
  remotes,              \* room.remoteParticipants, in join order
  canPublish,           \* p.permissions?.canPublish of every participant
  pubs,                 \* the audio publication of every remote participant
  host,                 \* const [host, setHost] = useState()
  hostEffectPending,    \* `participants` changed, its effect has not run yet
  routingEffectPending, \* `remoteParticipants` or `host` changed, effect not run
  handler,              \* the closure registered with room.on("trackSubscribed")
  evaluated,            \* the last step ran handleTrackMuting
  deferred              \* remote participants whose publication an evaluation
                        \* has visited while it had no track

routingVars == <<remotes, canPublish, pubs, host, hostEffectPending,
                 routingEffectPending, handler, evaluated, deferred>>

\* the state of the transcription stores (Part II)
VARIABLES
  items,          \* const [items, setItems] = useState<LogItem[]>([])
  transcriptions, \* the caption store: language -> segments, in key order
  language,       \* the `language` prop of TranscriptLog
  now,            \* Date.now()
  deliveries,     \* number of batches delivered after the bulk batch
  firstTime,      \* id -> the time given at its first accepted delivery
  lastText,       \* id -> the text of its latest accepted delivery
  redelivered     \* some id has been accepted by the log more than once

storeVars == <<items, transcriptions, language, now, deliveries,
               firstTime, lastText, redelivered>>

\* the per-participant index (useTranscriptionsByParticipant)
VARIABLES
  byParticipant,  \* const [byParticipant, setByParticipant] = useState({})
  lastSpoken      \* participant sid -> the text of the last segment delivered
                  \* that passed the language filter and resolved to it

viewVars == <<byParticipant, lastSpoken>>

\* the session state (usePartyState) and the language list of the controls
VARIABLES
  state,          \* const [state, dispatch] = useReducer(reducer, initialState)
  thrown          \* the last dispatch made the reducer throw

sessionVars == <<state, thrown>>

\* the language list of the controls and the runs of its fetch
VARIABLES
  agent,          \* const { agent } = useVoiceAssistant() is defined
  languages,      \* const [languages, setLanguages] = useState<Language[]>([])
  runs            \* the calls of getLanguages made so far, each with the
                  \* position it has reached

fetchVars == <<agent, languages, runs>>

\* the components that are mounted and the room's listener table
VARIABLES
  mounted,        \* the components whose effects are alive
  listeners       \* per handler, the number of closures registered with
                  \* room.on(...) and not yet removed with room.off(...)

lifeVars == <<mounted, listeners>>

\* the attribute-sync effect of SingleUserControls
VARIABLES
  syncPending,    \* a dependency of the effect changed, it has not run yet
  published       \* the attribute set of the last call of
                  \* room.localParticipant.setAttributes, if any

syncVars == <<syncPending, published>>

vars == <<routingVars, storeVars, viewVars, sessionVars, fetchVars, lifeVars,
          syncVars>>

\* participant.identity
Identity(p) == p

\* useParticipants(): the local participant, then the remote ones
participants == <<LocalP>> \o remotes

SeqToSet(s) == {s[i] : i \in DOMAIN s}

RemoveFromSeq(s, x) == SelectSeq(s, LAMBDA y : y # x)

\* a variant that sets the gain and leaves the playback elements alone
setRemoteTrackMuted_VolumeOnly(publication, muted) ==
  IF ~publication.audioTrack
    THEN publication
    ELSE [publication EXCEPT !.volume = IF muted THEN 0 ELSE 1]

\* a variant whose mute request flips the gain instead of setting it
setRemoteTrackMuted_Toggle(publication, muted) ==
  IF ~publication.audioTrack
    THEN publication
    ELSE LET volume == IF muted THEN 1 - publication.volume ELSE 1
         IN [publication EXCEPT
               !.volume = volume,
               !.attachedElements =
                 [i \in DOMAIN publication.attachedElements |-> volume = 0]]

\* audioTrack.setVolume(muted ? 0 : 1);
\* audioTrack.attachedElements.forEach((element) => { element.muted = muted; });
\* with the early return when the publication has no audio track
setRemoteTrackMuted(publication, muted) ==
  IF ~publication.audioTrack
    THEN publication
    ELSE [publication EXCEPT
            !.volume = IF muted THEN 0 ELSE 1,
            !.attachedElements = [i \in DOMAIN publication.attachedElements |-> muted]]

\* a variant that decides by identity alone, also for the host
VisitPublication_AgentAudible(isHost, participant, publication) ==
  setRemoteTrackMuted(publication, Identity(participant) # "agent")

\* a variant whose listener branch leaves the other participants as they are
VisitPublication_ListenerPassThrough(isHost, participant, publication) ==
  IF isHost
    THEN setRemoteTrackMuted(publication, TRUE)
    ELSE IF Identity(participant) = "agent"
           THEN setRemoteTrackMuted(publication, FALSE)
           ELSE publication

\* a variant that sets the gain without looking for the audio track
VisitPublication_NoTrackCheck(isHost, participant, publication) ==
  LET muted == isHost \/ Identity(participant) # "agent"
  IN [publication EXCEPT
        !.volume = IF muted THEN 0 ELSE 1,
        !.attachedElements = [i \in DOMAIN publication.attachedElements |-> muted]]

\* the body of the inner forEach of handleTrackMuting: one publication of one
\* remote participant
VisitPublication(isHost, participant, publication) ==
  IF isHost
    THEN IF publication.audioTrack
           THEN setRemoteTrackMuted(publication, TRUE)
           ELSE publication
    ELSE IF Identity(participant) = "agent"
           THEN IF publication.audioTrack
                  THEN setRemoteTrackMuted(publication, FALSE)
                  ELSE publication
           ELSE IF publication.audioTrack
                  THEN setRemoteTrackMuted(publication, TRUE)
                  ELSE publication

\* remoteParticipants.forEach(...): the participants are visited in array order
RECURSIVE handleTrackMuting(_, _, _)
handleTrackMuting(isHost, remoteParticipants, ps) ==
  IF remoteParticipants = <<>>
    THEN ps
    ELSE LET participant == Head(remoteParticipants)
         IN handleTrackMuting(isHost, Tail(remoteParticipants),
              IF ps[participant].published
                THEN [ps EXCEPT ![participant] =
                        VisitPublication(isHost, participant, ps[participant])]
                ELSE ps)

\* the publications an evaluation visits while they have no track
VisitedWithoutTrack(remoteParticipants, ps) ==
  {p \in SeqToSet(remoteParticipants) : ps[p].published /\ ~ps[p].audioTrack}

\* const host = participants.find((p) => p.permissions?.canPublish)
RECURSIVE Find(_, _)
Find(ps, perm) ==
  IF ps = <<>> THEN NoHost
  ELSE IF perm[Head(ps)] THEN Head(ps)
  ELSE Find(Tail(ps), perm)

InitRouting ==
  /\ remotes = <<>>
  /\ canPublish \in {f \in [{LocalP} \cup RemoteIds -> BOOLEAN] :
                       \A p \in RemoteIds : ~f[p]}
  /\ pubs = [p \in RemoteIds |-> NoPub]
  /\ host = NoHost
  /\ hostEffectPending = TRUE
  /\ routingEffectPending = TRUE
  /\ handler = NoHandler
  /\ evaluated = FALSE
  /\ deferred = {}

(***************************************************************************)
(* Events of the room.                                                     *)
(***************************************************************************)
\* a remote participant joins; the agent always joins with publish permission
ParticipantConnected(p, perm) ==
  /\ UNCHANGED <<storeVars, viewVars, sessionVars, fetchVars, lifeVars, syncVars>>
  /\ p \notin SeqToSet(remotes)
  /\ p = AgentP => perm
  /\ remotes' = Append(remotes, p)
  /\ canPublish' = [canPublish EXCEPT ![p] = perm]
  /\ hostEffectPending' = TRUE
  /\ routingEffectPending' = TRUE
  /\ evaluated' = FALSE
  /\ UNCHANGED <<pubs, host, handler, deferred>>

\* a remote participant leaves: its publication and track are gone, a `host`
\* state and a closure keep the stale object, which is never visited again
ParticipantDisconnected(p) ==
  /\ UNCHANGED <<storeVars, viewVars, sessionVars, fetchVars, lifeVars, syncVars>>
  /\ p \in SeqToSet(remotes)
  /\ remotes' = RemoveFromSeq(remotes, p)
  /\ canPublish' = [canPublish EXCEPT ![p] = FALSE]
  /\ pubs' = [pubs EXCEPT ![p] = NoPub]
  /\ host' = IF host = p THEN Departed ELSE host
  /\ handler' = [handler EXCEPT
                   !.remoteParticipants = RemoveFromSeq(@, p)]
  /\ deferred' = deferred \ {p}
  /\ hostEffectPending' = TRUE
  /\ routingEffectPending' = TRUE
  /\ evaluated' = FALSE

\* the publish permission of the local participant is granted or revoked
ParticipantPermissionsChanged ==
  /\ UNCHANGED <<storeVars, viewVars, sessionVars, fetchVars, lifeVars, syncVars>>
  /\ canPublish' = [canPublish EXCEPT ![LocalP] = ~@]
  /\ hostEffectPending' = TRUE
  /\ evaluated' = FALSE
  /\ UNCHANGED <<remotes, pubs, host, routingEffectPending, handler, deferred>>

\* a remote participant with publish permission publishes its audio track
TrackPublished(p) ==
  /\ UNCHANGED <<storeVars, viewVars, sessionVars, fetchVars, lifeVars, syncVars>>
  /\ p \in SeqToSet(remotes)
  /\ canPublish[p]
  /\ ~pubs[p].published
  /\ pubs' = [pubs EXCEPT ![p] = NewPub]
  /\ evaluated' = FALSE
  /\ UNCHANGED <<remotes, canPublish, host, hostEffectPending,
                 routingEffectPending, handler, deferred>>

\* the track of a publication is subscribed: publication.audioTrack is set and
\* the room emits trackSubscribed, which runs the registered handler (if any)
TrackSubscribed(p) ==
  /\ UNCHANGED <<storeVars, viewVars, sessionVars, fetchVars, lifeVars, syncVars>>
  /\ pubs[p].published
  /\ ~pubs[p].audioTrack
  /\ LET subscribed == [pubs EXCEPT ![p].audioTrack = TRUE]
     IN IF handler.registered
          THEN /\ pubs' = handleTrackMuting(handler.isHost,
                                            handler.remoteParticipants, subscribed)
               /\ deferred' = deferred \cup
                    VisitedWithoutTrack(handler.remoteParticipants, subscribed)
               /\ evaluated' = TRUE
          ELSE /\ pubs' = subscribed
               /\ deferred' = deferred
               /\ evaluated' = FALSE
  /\ UNCHANGED <<remotes, canPublish, host, hostEffectPending,
                 routingEffectPending, handler>>

\* <RoomAudioRenderer /> attaches a playback element to a subscribed track;
\* a fresh media element is not muted
ElementAttached(p) ==
  /\ UNCHANGED <<storeVars, viewVars, sessionVars, fetchVars, lifeVars, syncVars>>
  /\ pubs[p].audioTrack
  /\ Len(pubs[p].attachedElements) < MaxElements
  /\ pubs' = [pubs EXCEPT ![p].attachedElements = Append(@, FALSE)]
  /\ evaluated' = FALSE
  /\ UNCHANGED <<remotes, canPublish, host, hostEffectPending,
                 routingEffectPending, handler, deferred>>

\* useRemoteParticipants() returns a new array on another room event
RemoteParticipantsChanged ==
  /\ UNCHANGED <<storeVars, viewVars, sessionVars, fetchVars, lifeVars, syncVars>>
  /\ ~routingEffectPending
  /\ routingEffectPending' = TRUE
  /\ evaluated' = FALSE
  /\ UNCHANGED <<remotes, canPublish, pubs, host, hostEffectPending,
                 handler, deferred>>

(***************************************************************************)
(* Effects of Party.                                                       *)
(***************************************************************************)
\* a variant that stores whatever find returned, also undefined
HostEffect_StoresUndefined ==
  /\ UNCHANGED <<storeVars, viewVars, sessionVars, fetchVars, lifeVars, syncVars>>
  /\ "party" \in mounted
  /\ hostEffectPending
  /\ hostEffectPending' = FALSE
  /\ LET found == Find(participants, canPublish)
     IN IF found # host
          THEN /\ host' = found
               /\ routingEffectPending' = TRUE
          ELSE UNCHANGED <<host, routingEffectPending>>
  /\ evaluated' = FALSE
  /\ UNCHANGED <<remotes, canPublish, pubs, handler, deferred>>

\* useEffect(() => { const host = participants.find(...); if (host) setHost(host) },
\*           [participants])
HostEffect ==
  /\ UNCHANGED <<storeVars, viewVars, sessionVars, fetchVars, lifeVars, syncVars>>
  /\ "party" \in mounted
  /\ hostEffectPending
  /\ hostEffectPending' = FALSE
  /\ LET found == Find(participants, canPublish)
     IN IF found # NoHost /\ found # host
          THEN /\ host' = found
               /\ routingEffectPending' = TRUE
          ELSE UNCHANGED <<host, routingEffectPending>>
  /\ evaluated' = FALSE
  /\ UNCHANGED <<remotes, canPublish, pubs, handler, deferred>>

\* Party (with its routing effect and useTranscriptionsByParticipant),
\* TranscriptLog and Captions
Components == {"party", "log", "captions"}

\* the handlers a component registers: "routing" for RoomEvent.TrackSubscribed,
\* the others for RoomEvent.TranscriptionReceived
HandlersOf(component) ==
  CASE component = "party" -> {"index", "routing"}
    [] component = "log" -> {"log"}
    [] component = "captions" -> {"captions"}

Handlers == UNION {HandlersOf(c) : c \in Components}

\* room.on(event, handle): every run of an effect registers a closure of its
\* own, so `registered` counts the closures per handler
Subscribe(registered, h) == [registered EXCEPT ![h] = @ + 1]

\* a variant of the cleanup that leaves the handlers registered
Release_Nothing(registered, handlers) == registered

\* return () => { room.off(event, handle); }: the closure of the run that is
\* cleaned up goes; off is a no-op when that run registered nothing
Release(registered, handlers) ==
  [h \in DOMAIN registered |->
     IF h \in handlers /\ registered[h] > 0
       THEN registered[h] - 1 ELSE registered[h]]

\* a variant of the re-run whose previous run is not cleaned up
Resubscribe_NoCleanup(registered, h) == Subscribe(registered, h)

\* an effect runs again because a dependency changed: the cleanup of the
\* previous run, then the body
Resubscribe(registered, h) == Subscribe(Release(registered, {h}), h)

\* useEffect(() => { if (!room || !host) return; ... handleTrackMuting();
\*   room.on("trackSubscribed", handleTrackSubscribed); return () => room.off(...) },
\*   [room, remoteParticipants, host]); the cleanup of the previous run comes first
RoutingEffect ==
  /\ UNCHANGED <<storeVars, viewVars, sessionVars, fetchVars, mounted, syncVars>>
  /\ "party" \in mounted
  /\ routingEffectPending
  /\ routingEffectPending' = FALSE
  /\ IF host = NoHost
       THEN /\ handler' = NoHandler
            /\ listeners' = Release(listeners, {"routing"})
            /\ evaluated' = FALSE
            /\ UNCHANGED <<pubs, deferred>>
       ELSE LET isHost == (host = LocalP)
            IN /\ pubs' = handleTrackMuting(isHost, remotes, pubs)
               /\ deferred' = deferred \cup VisitedWithoutTrack(remotes, pubs)
               /\ handler' = [registered |-> TRUE, isHost |-> isHost,
                              remoteParticipants |-> remotes]
               /\ listeners' = Resubscribe(listeners, "routing")
               /\ evaluated' = TRUE
  /\ UNCHANGED <<remotes, canPublish, host, hostEffectPending>>

NextRouting ==
  \/ \E p \in RemoteIds, perm \in BOOLEAN : ParticipantConnected(p, perm)
  \/ \E p \in RemoteIds : ParticipantDisconnected(p)
  \/ ParticipantPermissionsChanged
  \/ \E p \in RemoteIds : TrackPublished(p)
  \/ \E p \in RemoteIds : TrackSubscribed(p)
  \/ \E p \in RemoteIds : ElementAttached(p)
  \/ RemoteParticipantsChanged
  \/ HostEffect
  \/ RoutingEffect


(***************************************************************************)
(* Part II.  Transcription segments, the transcript log, the caption store.*)
(***************************************************************************)
\* .slice(-100): the number of entries the transcript log keeps
MaxEntries == 100
\* a segment without firstReceivedTime (firstReceivedTime?: number)
NoTime == -1
\* a segment without a language, a component without a language filter
NoLanguage == "<undefined>"
\* a segment without participantSid, speakerSid and participant.sid
NoSid == ""

Segment(id, text, lang, final, time) ==
  [id |-> id, text |-> text, language |-> lang, final |-> final,
   firstReceivedTime |-> time,
   participantSid |-> NoSid, speakerSid |-> NoSid, participant |-> [sid |-> NoSid]]

\* const psid = s.participantSid || s.speakerSid || s.participant?.sid;
ResolveSid(s) ==
  IF s.participantSid # NoSid THEN s.participantSid
  ELSE IF s.speakerSid # NoSid THEN s.speakerSid
  ELSE s.participant.sid

\* const lang = s.language && s.language !== "" ? s.language : "en";
EffectiveLanguage(s) ==
  IF s.language # NoLanguage /\ s.language # "" THEN s.language ELSE "en"

\* a variant that takes a segment without the flag for an interim one
IsFinal_OnlyWhenFlagged(s) == s.final = "true"

\* const isFinal = typeof s.final === "boolean" ? s.final : true;
IsFinal(s) == IF s.final \in {"true", "false"} THEN s.final = "true" ELSE TRUE

\* if (language && lang !== language) continue;  if (!isFinal) continue;
AcceptedByLog(s, filter) ==
  /\ ~(filter # NoLanguage /\ filter # "" /\ EffectiveLanguage(s) # filter)
  /\ IsFinal(s)

\* const time = s.firstReceivedTime ?? Date.now();
GivenTime(s, clock) ==
  IF s.firstReceivedTime # NoTime THEN s.firstReceivedTime ELSE clock

\* the positions of id in a list of entries with unique ids
IndexOf(entries, id) == {i \in DOMAIN entries : entries[i].id = id}

\* Map.prototype.set / assignment to an object key: an existing key keeps its
\* place, a new key goes last
MapSet(entries, entry) ==
  LET at == IndexOf(entries, entry.id)
  IN IF at = {}
       THEN Append(entries, entry)
       ELSE [entries EXCEPT ![CHOOSE i \in at : TRUE] = entry]

\* the LogItem made of one accepted segment
LogItemOf(byId, s, clock) ==
  LET at == IndexOf(byId, s.id)
  IN [id |-> s.id,
      text |-> s.text,
      language |-> EffectiveLanguage(s),
      participantSid |-> ResolveSid(s),
      time |-> IF at # {} THEN byId[CHOOSE i \in at : TRUE].time
               ELSE GivenTime(s, clock)]

\* for (const x of xs) acc = step(acc, x): a loop over an array in array
\* order.  The array is split in halves (first half, then second half), which
\* visits the elements in the same order as the loop does.
RECURSIVE ForEach(_, _, _)
ForEach(step(_, _), acc, xs) ==
  IF xs = <<>> THEN acc
  ELSE IF Len(xs) = 1 THEN step(acc, xs[1])
  ELSE LET half == Len(xs) \div 2
           first == ForEach(step, acc, SubSeq(xs, 1, half))
       IN IF first = first  \* the first half is evaluated before the second
            THEN ForEach(step, first, SubSeq(xs, half + 1, Len(xs)))
            ELSE first

\* the body of the loop of handle: one segment
MergeSegment(byId, s, filter, clock) ==
  IF AcceptedByLog(s, filter)
    THEN MapSet(byId, LogItemOf(byId, s, clock))
    ELSE byId

\* for (const s of segments) { ...; byId.set(s.id, next); }
MergeSegments(byId, segments, filter, clock) ==
  ForEach(LAMBDA acc, s : MergeSegment(acc, s, filter, clock), byId, segments)

\* a variant of the sort that leaves the entries in the order of the Map
SortByTime_MapOrder(entries, times) == entries

\* .sort((a, b) => a.time - b.time): Array.prototype.sort is stable, so the
\* entries of every time value keep their order, the time values ascending
RECURSIVE SortByTime(_, _)
SortByTime(entries, times) ==
  IF times = {}
    THEN <<>>
    ELSE LET t == CHOOSE u \in times : \A v \in times : u <= v
         IN SelectSeq(entries, LAMBDA e : e.time = t)
              \o SortByTime(entries, times \ {t})

\* a variant that keeps the first entries: .slice(0, 100)
SliceLast_First(entries) ==
  IF Len(entries) > MaxEntries
    THEN SubSeq(entries, 1, MaxEntries)
    ELSE entries

\* .slice(-100)
SliceLast(entries) ==
  IF Len(entries) > MaxEntries
    THEN SubSeq(entries, Len(entries) - MaxEntries + 1, Len(entries))
    ELSE entries

\* the updater handle passes to setItems
handle(prev, segments, filter, clock) ==
  LET byId == MergeSegments(prev, segments, filter, clock)
  IN SliceLast(SortByTime(byId, {byId[i].time : i \in DOMAIN byId}))

\* the key under which an object stores a value of this language
PropertyKey(lang) == IF lang = NoLanguage THEN "undefined" ELSE lang

\* let { language } = segment; if (language === "") { language = "en"; }
CaptionLanguage(s) == PropertyKey(IF s.language = "" THEN "en" ELSE s.language)

\* if (!newTranscriptions[language]) newTranscriptions[language] = {};
\* newTranscriptions[language][id] = segment;
StoreSegment(store, s) ==
  LET key == CaptionLanguage(s)
      bucket == IF key \in DOMAIN store THEN store[key] ELSE <<>>
  IN [k \in DOMAIN store \cup {key} |->
        IF k = key THEN MapSet(bucket, s) ELSE store[k]]

\* the updater updateTranscriptions passes to setTranscriptions
updateTranscriptions(prev, segments) ==
  ForEach(StoreSegment, prev, segments)

\* The objects behind the caption store.  A snapshot (the object held by the
\* transcriptions state) maps a language key to a reference of a bucket
\* object; the heap maps the reference to the entries of the bucket.  A
\* bucket object is created once for its key and is named by it.
\* the snapshot and the heap of a store value
SnapshotOf(store) == [k \in DOMAIN store |-> k]

\* const newTranscriptions = { ...prev }: a new snapshot object that holds
\* the references prev holds
ShallowCopy(snapshot) == snapshot

\* if (!newTranscriptions[language]) newTranscriptions[language] = {};
\* newTranscriptions[language][id] = segment;  on the objects: the bucket
\* object the snapshot refers to is written in place
StoreSegmentInPlace(objects, s) ==
  LET key == CaptionLanguage(s)
      isNew == key \notin DOMAIN objects.snapshot
      snapshot == IF isNew
                    THEN [k \in DOMAIN objects.snapshot \cup {key} |->
                            IF k = key THEN key ELSE objects.snapshot[k]]
                    ELSE objects.snapshot
      heap == IF isNew
                THEN [r \in DOMAIN objects.heap \cup {key} |->
                        IF r = key THEN <<>> ELSE objects.heap[r]]
                ELSE objects.heap
      ref == snapshot[key]
  IN [snapshot |-> snapshot,
      heap |-> [heap EXCEPT ![ref] = MapSet(@, s)]]

\* the updater of setTranscriptions on the objects: the snapshot it returns
\* and the heap it leaves
updateTranscriptionsInPlace(prev, heap, segments) ==
  ForEach(StoreSegmentInPlace,
          [snapshot |-> ShallowCopy(prev), heap |-> heap], segments)

\* what a snapshot holds in a heap
Contents(snapshot, heap) == [k \in DOMAIN snapshot |-> heap[snapshot[k]]]

(***************************************************************************)
(* What has been delivered so far (history, read by the claims only).      *)
(***************************************************************************)
\* the segments of a batch the log accepts, in array order
AcceptedOf(segments, filter) ==
  SelectSeq(segments, LAMBDA s : AcceptedByLog(s, filter))

\* id -> the time given at the first accepted delivery of the id
RecordFirstTime(seen, segments, filter, clock) ==
  LET acc == AcceptedOf(segments, filter)
      new == {acc[i].id : i \in DOMAIN acc} \ DOMAIN seen
      first(id) == CHOOSE i \in DOMAIN acc :
                     acc[i].id = id /\ \A j \in 1..(i - 1) : acc[j].id # id
  IN [id \in DOMAIN seen \cup new |->
        IF id \in DOMAIN seen THEN seen[id]
        ELSE GivenTime(acc[first(id)], clock)]

\* id -> the text of the latest accepted delivery of the id
RecordLastText(seen, segments, filter) ==
  LET acc == AcceptedOf(segments, filter)
      ids == {acc[i].id : i \in DOMAIN acc}
      last(id) == CHOOSE i \in DOMAIN acc :
                    acc[i].id = id /\ \A j \in (i + 1)..Len(acc) : acc[j].id # id
  IN [id \in DOMAIN seen \cup ids |->
        IF id \in ids THEN acc[last(id)].text ELSE seen[id]]

\* some accepted segment of the batch has an id accepted before, in an
\* earlier batch or earlier in this one
Redelivers(seenIds, segments, filter) ==
  LET acc == AcceptedOf(segments, filter)
  IN \/ \E i \in DOMAIN acc : acc[i].id \in seenIds
     \/ \E i, j \in DOMAIN acc : i # j /\ acc[i].id = acc[j].id

(***************************************************************************)
(* The batches the room delivers.                                          *)
(***************************************************************************)
\* one bulk batch of n final "en" segments with ids 1..n; their times fall
\* into three groups (11, 12, 13), rising or falling with the array order,
\* or are all equal
BulkTime(n, order, i) ==
  CASE order = "same" -> 11
    [] order = "rising" -> 11 + ((3 * (i - 1)) \div n)
    [] order = "falling" -> 13 - ((3 * (i - 1)) \div n)

BulkBatch(n, order) ==
  [i \in 1..n |-> Segment(i, "a", "en", "true", BulkTime(n, order, i))]

BulkBatches ==
  { BulkBatch(MaxEntries - 1, "same"),
    BulkBatch(MaxEntries, "rising"),
    BulkBatch(MaxEntries + 1, "falling") }

\* the segments of the small batches: two fresh ids and id 1 (the first id
\* of a bulk batch), older than, equal to or newer than the bulk's times or
\* without a time, final, interim or without a flag
SmallSegments ==
  << Segment(201, "a", "en", "true", 5),
     Segment(202, "a", "en", "absent", 5),
     Segment(201, "b", "", "true", NoTime),
     Segment(1, "b", "en", "true", NoTime),
     Segment(202, "b", "es", "true", 500),
     Segment(201, "c", "en", "false", 11),
     Segment(202, "c", NoLanguage, "true", 11),
     Segment(1, "c", "en", "absent", 500) >>

\* number of the segments above that also occur in batches of two
PairedSegments == 4

SmallBatches ==
  { <<SmallSegments[i]>> : i \in DOMAIN SmallSegments }
    \cup { <<SmallSegments[i], SmallSegments[j]>> : i, j \in 1..PairedSegments }

(***************************************************************************)
(* Part III.  The per-participant index and the session state.             *)
(***************************************************************************)
\* if (language && lang !== language) continue;
PassesIndexFilter(s, filter) ==
  ~(filter # NoLanguage /\ filter # "" /\ EffectiveLanguage(s) # filter)

\* a variant that keeps the entry a participant already has
IndexSegment_FirstWriteWins(updated, s, filter) ==
  IF ~PassesIndexFilter(s, filter) THEN updated
  ELSE IF ResolveSid(s) = NoSid \/ ResolveSid(s) \in DOMAIN updated THEN updated
  ELSE [psid \in DOMAIN updated \cup {ResolveSid(s)} |->
          IF psid = ResolveSid(s) THEN s.text ELSE updated[psid]]

\* the body of the loop of the index's handle: one segment
IndexSegment(updated, s, filter) ==
  IF ~PassesIndexFilter(s, filter) THEN updated
  ELSE IF ResolveSid(s) = NoSid THEN updated
  ELSE [psid \in DOMAIN updated \cup {ResolveSid(s)} |->
          IF psid = ResolveSid(s) THEN s.text ELSE updated[psid]]

\* the updater the index's handle passes to setByParticipant
handleByParticipant(prev, segments, filter) ==
  ForEach(LAMBDA updated, s : IndexSegment(updated, s, filter), prev, segments)

\* participant sid -> the text of the last segment (array order) of the batch
\* that passed the filter and resolved to the sid, else what was recorded
RecordLastSpoken(seen, segments, filter) ==
  LET said == SelectSeq(segments, LAMBDA s :
                PassesIndexFilter(s, filter) /\ ResolveSid(s) # NoSid)
      sids == {ResolveSid(said[i]) : i \in DOMAIN said}
      last(p) == CHOOSE i \in DOMAIN said :
                   /\ ResolveSid(said[i]) = p
                   /\ \A j \in (i + 1)..Len(said) : ResolveSid(said[j]) # p
  IN [p \in DOMAIN seen \cup sids |->
        IF p \in sids THEN said[last(p)].text ELSE seen[p]]

\* token: undefined
NoToken == "<undefined>"

\* const initialState: State = { ... } of the single-user page
initialState ==
  [token |-> NoToken, serverUrl |-> "", shouldConnect |-> FALSE,
   captionsEnabled |-> TRUE, captionsLanguage |-> "en", isHost |-> TRUE,
   mode |-> "single", currentSpeaker |-> "user1",
   inputLanguage |-> "en", outputLanguage |-> "es"]

\* what a call of the reducer gives: a new state, or a thrown Error
Returned(next) == [thrown |-> FALSE, state |-> next]

\* a variant of the flip that gives the turn to user2 whoever has it
FlipLanguages_TurnToUser2(st) ==
  [st EXCEPT !.inputLanguage = st.outputLanguage,
             !.outputLanguage = st.inputLanguage,
             !.currentSpeaker = "user2"]

\* a variant of the flip that also shows the captions in the new output
\* language
FlipLanguages_AlsoCaptions(st) ==
  [st EXCEPT !.inputLanguage = st.outputLanguage,
             !.outputLanguage = st.inputLanguage,
             !.currentSpeaker = IF st.currentSpeaker = "user1" THEN "user2"
                                ELSE "user1",
             !.captionsLanguage = st.inputLanguage]

\* { ...state, inputLanguage: state.outputLanguage,
\*   outputLanguage: state.inputLanguage,
\*   currentSpeaker: state.currentSpeaker === "user1" ? "user2" : "user1" }
FlipLanguages(st) ==
  [st EXCEPT !.inputLanguage = st.outputLanguage,
             !.outputLanguage = st.inputLanguage,
             !.currentSpeaker = IF st.currentSpeaker = "user1" THEN "user2"
                                ELSE "user1"]

\* a variant of the default case that returns the state as it is
Thrown_ReturnsState(st, action) == Returned(st)

\* throw new Error(`Unknown action: ${JSON.stringify(action)}`)
Thrown(st, action) ==
  [thrown |-> TRUE, message |-> "Unknown action", action |-> action]

\* export const reducer = (state: State, action: Action): State => { switch ... }
reducer(st, action) ==
  CASE action.type = "SET_TOKEN" ->
         Returned([st EXCEPT !.token = action.payload])
    [] action.type = "SET_SERVER_URL" ->
         Returned([st EXCEPT !.serverUrl = action.payload])
    [] action.type = "SET_SHOULD_CONNECT" ->
         Returned([st EXCEPT !.shouldConnect = action.payload])
    [] action.type = "SET_CAPTIONS_ENABLED" ->
         Returned([st EXCEPT !.captionsEnabled = action.payload])
    [] action.type = "SET_CAPTIONS_LANGUAGE" ->
         Returned([st EXCEPT !.captionsLanguage = action.payload])
    [] action.type = "SET_IS_HOST" ->
         Returned([st EXCEPT !.isHost = action.payload])
    [] action.type = "SET_MODE" ->
         Returned([st EXCEPT !.mode = action.payload])
    [] action.type = "SET_CURRENT_SPEAKER" ->
         Returned([st EXCEPT !.currentSpeaker = action.payload])
    [] action.type = "SET_INPUT_LANGUAGE" ->
         Returned([st EXCEPT !.inputLanguage = action.payload])
    [] action.type = "SET_OUTPUT_LANGUAGE" ->
         Returned([st EXCEPT !.outputLanguage = action.payload])
    [] action.type = "FLIP_LANGUAGES" -> Returned(FlipLanguages(st))
    [] OTHER -> Thrown(st, action)

\* .sort((a, b) => a.firstReceivedTime - b.firstReceivedTime) of segments
\* that carry a time (livekit-client declares firstReceivedTime: number):
\* stable, the time values ascending
RECURSIVE SortByFirstReceivedTime(_, _)
SortByFirstReceivedTime(segments, times) ==
  IF times = {}
    THEN <<>>
    ELSE LET t == CHOOSE u \in times : \A v \in times : u <= v
         IN SelectSeq(segments, LAMBDA e : e.firstReceivedTime = t)
              \o SortByFirstReceivedTime(segments, times \ {t})

\* a variant that takes the first n segments of the bucket as stored
LastOfBucket_FirstStored(store, lang, n) ==
  LET bucket == IF PropertyKey(lang) \in DOMAIN store
                  THEN store[PropertyKey(lang)] ELSE <<>>
  IN IF Len(bucket) > n THEN SubSeq(bucket, 1, n) ELSE bucket

\* Object.values(transcriptions[lang] || {}).sort(...).slice(-n)
LastOfBucket(store, lang, n) ==
  LET bucket == IF PropertyKey(lang) \in DOMAIN store
                  THEN store[PropertyKey(lang)] ELSE <<>>
      sorted == SortByFirstReceivedTime(bucket,
                  {bucket[i].firstReceivedTime : i \in DOMAIN bucket})
  IN IF Len(sorted) > n THEN SubSeq(sorted, Len(sorted) - n + 1, Len(sorted))
     ELSE sorted

\* the <li> elements of Captions in multi mode
\* className={i === 0 && arr.length > 1 ? "opacity-50" : "opacity-100"}
CaptionsMulti(store, st) ==
  LET arr == LastOfBucket(store, st.captionsLanguage, 2)
  IN [i \in DOMAIN arr |->
        [key |-> arr[i].id, text |-> arr[i].text,
         className |-> IF i = 1 /\ Len(arr) > 1 THEN "opacity-50"
                       ELSE "opacity-100"]]

\* a variant that shows the two latest segments of the input language
CaptionsSingle_TwoInputs(store, st) ==
  LET inputSegments == LastOfBucket(store, st.inputLanguage, 2)
      outputSegments == LastOfBucket(store, st.outputLanguage, 1)
  IN [input |-> [i \in DOMAIN inputSegments |-> inputSegments[i].text],
      output |-> [i \in DOMAIN outputSegments |-> outputSegments[i].text]]

\* the texts Captions shows in single mode: inputSegments and outputSegments
CaptionsSingle(store, st) ==
  LET inputSegments == LastOfBucket(store, st.inputLanguage, 1)
      outputSegments == LastOfBucket(store, st.outputLanguage, 1)
  IN [input |-> [i \in DOMAIN inputSegments |-> inputSegments[i].text],
      output |-> [i \in DOMAIN outputSegments |-> outputSegments[i].text]]

\* if (state.mode === "single") { ... } ... (multi mode)
Captions(store, st) ==
  IF st.mode = "single" THEN CaptionsSingle(store, st)
  ELSE CaptionsMulti(store, st)

\* itemsByLang[lang] || []: the items of one language, in the order of items
ItemsByLang(its, lang) == SelectSeq(its, LAMBDA it : it.language = lang)

\* Math.max(inputItems.length, outputItems.length)
Max(a, b) == IF a >= b THEN a ELSE b

\* no item on one side of a row of the paired log
NoItem == "<absent>"

\* a variant that makes rows only while both languages have an item
PairedRows_WhileBoth(its, inputLanguage, outputLanguage) ==
  LET inputItems == ItemsByLang(its, inputLanguage)
      outputItems == ItemsByLang(its, outputLanguage)
      minLen == IF Len(inputItems) <= Len(outputItems)
                  THEN Len(inputItems) ELSE Len(outputItems)
  IN [i \in 1..minLen |->
        [input |-> inputItems[i].text, output |-> outputItems[i].text]]

\* the rows of the transcript log in single mode
PairedRows(its, inputLanguage, outputLanguage) ==
  LET inputItems == ItemsByLang(its, inputLanguage)
      outputItems == ItemsByLang(its, outputLanguage)
      maxLen == Max(Len(inputItems), Len(outputItems))
  IN [i \in 1..maxLen |->
        [input |-> IF i <= Len(inputItems) THEN inputItems[i].text ELSE NoItem,
         output |-> IF i <= Len(outputItems) THEN outputItems[i].text ELSE NoItem]]

\* const content = useMemo(...) of TranscriptLog
content(its, mode, inputLanguage, outputLanguage) ==
  IF mode = "single"
    THEN PairedRows(its, inputLanguage, outputLanguage)
    ELSE [i \in DOMAIN its |-> its[i].text]

InitViews ==
  /\ byParticipant = <<>>
  /\ lastSpoken = <<>>

InitSession ==
  /\ state = initialState
  /\ thrown = FALSE

\* the state dependencies of the attribute-sync effect
SyncDeps(st) == <<st.inputLanguage, st.outputLanguage, st.currentSpeaker>>

\* dispatch(action): the reducer runs on the current state; when it throws,
\* the error leaves the render and no new state is produced
\* a change of the state dependencies of the attribute-sync effect schedules it;
\* a change of state.captionsLanguage runs the subscribing effect of
\* useTranscriptionsByParticipant (dependencies [room, language]) again
Dispatch(action) ==
  /\ ~thrown
  /\ LET result == reducer(state, action)
     IN IF result.thrown
          THEN /\ thrown' = TRUE
               /\ state' = state
               /\ UNCHANGED <<syncPending, listeners>>
          ELSE /\ thrown' = FALSE
               /\ state' = result.state
               /\ syncPending' =
                    (syncPending \/ SyncDeps(result.state) # SyncDeps(state))
               /\ listeners' =
                    IF /\ "party" \in mounted
                       /\ result.state.captionsLanguage # state.captionsLanguage
                      THEN Resubscribe(listeners, "index")
                      ELSE listeners
  /\ UNCHANGED <<published, routingVars, storeVars, viewVars, fetchVars, mounted>>

\* a variant that always shows the captions in the output language
CaptionsLanguageFor_Output(st) == st.outputLanguage

\* const captionsLang = state.currentSpeaker === "user1"
\*   ? state.outputLanguage : state.inputLanguage;
CaptionsLanguageFor(st) ==
  IF st.currentSpeaker = "user1" THEN st.outputLanguage ELSE st.inputLanguage

\* the argument of room.localParticipant.setAttributes
AttributesOf(st) ==
  [captions_language |-> CaptionsLanguageFor(st),
   input_language |-> st.inputLanguage,
   output_language |-> st.outputLanguage,
   current_speaker |-> st.currentSpeaker,
   mode |-> "single"]

\* a variant that publishes whether or not there is an agent
updateAttributes_PublishesAlways(st, pub, agentPresent) ==
  [state |-> reducer(st, [type |-> "SET_CAPTIONS_LANGUAGE",
                          payload |-> CaptionsLanguageFor(st)]).state,
   published |-> {AttributesOf(st)}]

\* updateAttributes: dispatch SET_CAPTIONS_LANGUAGE, then setAttributes if
\* there is an agent; a rejected call is caught and logged
updateAttributes(st, pub, agentPresent) ==
  [state |-> reducer(st, [type |-> "SET_CAPTIONS_LANGUAGE",
                          payload |-> CaptionsLanguageFor(st)]).state,
   published |-> IF agentPresent THEN {AttributesOf(st)} ELSE pub]

\* the effect has not run after mount; nothing has been published
InitSync ==
  /\ syncPending = TRUE
  /\ published = {}

\* useEffect(() => { ...; if (state.inputLanguage && state.outputLanguage)
\*   updateAttributes(); }, [state.inputLanguage, state.outputLanguage,
\*   state.currentSpeaker, room.localParticipant, dispatch, agent])
SyncEffect ==
  /\ ~thrown
  /\ syncPending
  /\ syncPending' = FALSE
  /\ IF state.inputLanguage # "" /\ state.outputLanguage # ""
       THEN LET result == updateAttributes(state, published, agent)
            IN /\ state' = result.state
               /\ published' = result.published
       ELSE UNCHANGED <<state, published>>
  /\ UNCHANGED <<thrown, routingVars, storeVars, viewVars, fetchVars, lifeVars>>

\* the actions of the handlers of SingleUserControls
SyncActions ==
  { [type |-> "SET_INPUT_LANGUAGE", payload |-> "en"],
    [type |-> "SET_INPUT_LANGUAGE", payload |-> "es"],
    [type |-> "SET_OUTPUT_LANGUAGE", payload |-> "en"],
    [type |-> "SET_OUTPUT_LANGUAGE", payload |-> "es"],
    [type |-> "FLIP_LANGUAGES"] }

\* the actions the session dispatches: every variant of Action with two
\* payloads, and two actions whose type is no variant of Action
SessionActions ==
  { [type |-> "SET_TOKEN", payload |-> "t1"],
    [type |-> "SET_TOKEN", payload |-> "t2"],
    [type |-> "SET_SERVER_URL", payload |-> "wss://a"],
    [type |-> "SET_SERVER_URL", payload |-> ""],
    [type |-> "SET_SHOULD_CONNECT", payload |-> TRUE],
    [type |-> "SET_SHOULD_CONNECT", payload |-> FALSE],
    [type |-> "SET_CAPTIONS_ENABLED", payload |-> TRUE],
    [type |-> "SET_CAPTIONS_ENABLED", payload |-> FALSE],
    [type |-> "SET_CAPTIONS_LANGUAGE", payload |-> "en"],
    [type |-> "SET_CAPTIONS_LANGUAGE", payload |-> "es"],
    [type |-> "SET_IS_HOST", payload |-> TRUE],
    [type |-> "SET_IS_HOST", payload |-> FALSE],
    [type |-> "SET_MODE", payload |-> "single"],
    [type |-> "SET_MODE", payload |-> "multi"],
    [type |-> "SET_CURRENT_SPEAKER", payload |-> "user1"],
    [type |-> "SET_CURRENT_SPEAKER", payload |-> "user2"],
    [type |-> "SET_INPUT_LANGUAGE", payload |-> "en"],
    [type |-> "SET_INPUT_LANGUAGE", payload |-> "es"],
    [type |-> "SET_OUTPUT_LANGUAGE", payload |-> "en"],
    [type |-> "SET_OUTPUT_LANGUAGE", payload |-> "es"],
    [type |-> "FLIP_LANGUAGES"],
    [type |-> "RESET"],
    [type |-> "SET_LANGUAGE", payload |-> "en"] }

NextSession == \E action \in SessionActions : Dispatch(action)

(***************************************************************************)
(* Part IV.  The fetch of the language list (getLanguages).                *)
(***************************************************************************)
\* const maxRetries = 5;
maxRetries == 5

\* what the agent answers to get/languages: two language lists as JSON, and a
\* text that JSON.parse rejects
Responses == {"[en,es]", "[en,fr]", "<html>"}

\* JSON.parse(response) throws
ParseThrows(response) == response = "<html>"

\* JSON.parse(response)
Parse(response) ==
  CASE response = "[en,es]" -> <<"en", "es">>
    [] response = "[en,fr]" -> <<"en", "fr">>

\* getLanguages() runs up to its first await: attempt 0 makes no delay and
\* calls performRpc
\* attempt and at are the loop variable and the statement the run waits at;
\* issued, delays and settled count the performRpc calls made, the delays
\* waited and the calls that have resolved or rejected; answer is the
\* response the run has stored
NoResponse == "<none>"

NewRun ==
  [attempt |-> 0, at |-> "performRpc", issued |-> 1, delays |-> 0,
   settled |-> 0, outcome |-> "running", answer |-> NoResponse]

InitFetch ==
  /\ agent = FALSE
  /\ languages = <<>>
  /\ runs = <<>>

\* useVoiceAssistant() gives another agent (or none): the effect with the
\* dependencies [room, agent] runs, and calls getLanguages if there is one
\* and the attribute-sync effect, which depends on agent, is scheduled
AgentChanged(present) ==
  /\ present \/ agent
  /\ present => Len(runs) < MaxRuns
  /\ agent' = present
  /\ runs' = IF present THEN Append(runs, NewRun) ELSE runs
  /\ syncPending' = TRUE
  /\ UNCHANGED <<languages, published, routingVars, storeVars, viewVars,
                 sessionVars, lifeVars>>

\* the session of the single-user page: the handlers of the controls, the
\* agent and the attribute-sync effect
NextSync ==
  \/ \E action \in SyncActions : Dispatch(action)
  \/ \E present \in BOOLEAN : AgentChanged(present)
  \/ SyncEffect

\* a variant of the loop that makes one attempt more
Caught_SixAttempts(run) ==
  IF run.attempt + 1 <= maxRetries
    THEN [run EXCEPT !.attempt = @ + 1, !.at = "delay", !.settled = @ + 1]
    ELSE [run EXCEPT !.attempt = @ + 1, !.at = "returned", !.settled = @ + 1,
                     !.outcome = "exhausted"]

\* the catch block: the attempt has failed; the loop goes on with the next
\* attempt, which starts with the delay, or ends after the last one
Caught(run) ==
  IF run.attempt + 1 < maxRetries
    THEN [run EXCEPT !.attempt = @ + 1, !.at = "delay", !.settled = @ + 1]
    ELSE [run EXCEPT !.attempt = @ + 1, !.at = "returned", !.settled = @ + 1,
                     !.outcome = "exhausted"]

\* await new Promise((resolve) => setTimeout(resolve, retryDelay)) is over:
\* the attempt calls performRpc
DelayElapsed(r) ==
  /\ r \in DOMAIN runs
  /\ runs[r].at = "delay"
  /\ runs' = [runs EXCEPT ![r].at = "performRpc", ![r].issued = @ + 1,
                          ![r].delays = @ + 1]
  /\ UNCHANGED <<agent, languages, routingVars, storeVars, viewVars, sessionVars,
                 lifeVars, syncVars>>

\* performRpc resolves with a response: JSON.parse, setLanguages, return;
\* or JSON.parse throws into the catch block
RpcResolved(r, response) ==
  /\ r \in DOMAIN runs
  /\ runs[r].at = "performRpc"
  /\ IF ParseThrows(response)
       THEN /\ runs' = [runs EXCEPT ![r] = Caught(@)]
            /\ UNCHANGED languages
       ELSE /\ languages' = Parse(response)
            /\ runs' = [runs EXCEPT ![r].at = "returned", ![r].settled = @ + 1,
                                    ![r].outcome = "stored",
                                    ![r].answer = response]
  /\ UNCHANGED <<agent, routingVars, storeVars, viewVars, sessionVars, lifeVars,
                 syncVars>>

\* performRpc rejects (an RPC error, or no response within responseTimeout)
RpcRejected(r) ==
  /\ r \in DOMAIN runs
  /\ runs[r].at = "performRpc"
  /\ runs' = [runs EXCEPT ![r] = Caught(@)]
  /\ UNCHANGED <<agent, languages, routingVars, storeVars, viewVars, sessionVars,
                 lifeVars, syncVars>>

NextFetch ==
  \/ \E present \in BOOLEAN : AgentChanged(present)
  \/ \E r \in 1..MaxRuns : DelayElapsed(r)
  \/ \E r \in 1..MaxRuns, response \in Responses : RpcResolved(r, response)
  \/ \E r \in 1..MaxRuns : RpcRejected(r)

(***************************************************************************)
(* Part V.  Mounting and teardown.                                         *)
(***************************************************************************)
\* every component is mounted; the effects of the transcription views have
\* run, the routing effect of Party is still pending
InitLife ==
  /\ mounted = Components
  /\ listeners = [h \in Handlers |-> IF h = "routing" THEN 0 ELSE 1]

\* a component is unmounted: the cleanups of its effects run, its pending
\* effects never do; the routing effect has a cleanup only if its last run
\* got past `if (!room || !host) return;`
Teardown(component) ==
  /\ component \in mounted
  /\ mounted' = mounted \ {component}
  /\ listeners' = Release(listeners, HandlersOf(component))
  /\ handler' = IF component = "party" THEN NoHandler ELSE handler
  /\ evaluated' = FALSE
  /\ UNCHANGED <<remotes, canPublish, pubs, host, hostEffectPending,
                 routingEffectPending, deferred>>
  /\ UNCHANGED <<storeVars, viewVars, sessionVars, fetchVars, syncVars>>

InitStores ==
  /\ items = <<>>
  /\ transcriptions = <<>>
  /\ language = NoLanguage
  /\ now = 300
  /\ deliveries = 0
  /\ firstTime = <<>>
  /\ lastText = <<>>
  /\ redelivered = FALSE

\* RoomEvent.TranscriptionReceived: the handlers of the transcript log, of
\* the caption store and of the per-participant index (whose language filter
\* is state.captionsLanguage) run on the same batch
Deliver(segments, clock) ==
  /\ now' = clock
  /\ IF listeners["log"] > 0
       THEN /\ items' = handle(items, segments, language, clock)
            /\ firstTime' = RecordFirstTime(firstTime, segments, language, clock)
            /\ lastText' = RecordLastText(lastText, segments, language)
            /\ redelivered' =
                 (redelivered \/ Redelivers(DOMAIN firstTime, segments, language))
       ELSE UNCHANGED <<items, firstTime, lastText, redelivered>>
  /\ IF listeners["captions"] > 0
       THEN transcriptions' = updateTranscriptions(transcriptions, segments)
       ELSE UNCHANGED transcriptions
  /\ IF listeners["index"] > 0
       THEN /\ byParticipant' = handleByParticipant(byParticipant, segments,
                                                    state.captionsLanguage)
            /\ lastSpoken' = RecordLastSpoken(lastSpoken, segments,
                                              state.captionsLanguage)
       ELSE UNCHANGED <<byParticipant, lastSpoken>>
  /\ UNCHANGED <<language, routingVars, sessionVars, fetchVars, lifeVars,
                 syncVars>>

\* the first batch may be a bulk batch
BulkTranscriptionReceived(segments) ==
  /\ deliveries = 0
  /\ items = <<>>
  /\ transcriptions = <<>>
  /\ Deliver(segments, now)
  /\ UNCHANGED deliveries

\* a small batch, at the same clock value as the previous one or later
TranscriptionReceived(segments, clock) ==
  /\ deliveries < MaxDeliveries
  /\ deliveries' = deliveries + 1
  /\ Deliver(segments, clock)

\* the values of the language prop of TranscriptLog
Languages == {NoLanguage, "en"}

\* TranscriptLog is rendered with another language prop: its effect
\* (dependencies [room, language]) subscribes handle again with the new
\* filter; the items stay
LanguageChanged(lang) ==
  /\ "log" \in mounted
  /\ lang # language
  /\ language' = lang
  /\ listeners' = Resubscribe(listeners, "log")
  /\ UNCHANGED <<items, transcriptions, now, deliveries,
                 firstTime, lastText, redelivered, routingVars,
                 viewVars, sessionVars, fetchVars, mounted, syncVars>>

NextStores ==
  \/ \E lang \in Languages : LanguageChanged(lang)
  \/ \E segments \in BulkBatches : BulkTranscriptionReceived(segments)
  \/ \E segments \in SmallBatches, clock \in {now, now + 1} :
       TranscriptionReceived(segments, clock)

\* a segment that carries a participant sid in one of its three places
SpokenSegment(id, text, lang, final, time, place, sid) ==
  LET s == Segment(id, text, lang, final, time)
  IN CASE place = "participantSid" -> [s EXCEPT !.participantSid = sid]
       [] place = "speakerSid" -> [s EXCEPT !.speakerSid = sid]
       [] place = "participant" -> [s EXCEPT !.participant = [sid |-> sid]]
       [] OTHER -> s

\* the segments of the batches the views receive: final, interim and
\* unflagged; with language "en", "es", empty and absent; spoken by p1, p2
\* or nobody
ViewSegments ==
  << SpokenSegment(301, "a", "en", "true", 5, "participantSid", "p1"),
     SpokenSegment(301, "c", "en", "false", 11, "participantSid", "p1"),
     SpokenSegment(302, "b", "", "absent", 20, "participantSid", "p2"),
     SpokenSegment(303, "d", NoLanguage, "true", 30, "participantSid", "p1"),
     SpokenSegment(304, "e", "es", "true", 20, "speakerSid", "p2"),
     SpokenSegment(305, "f", "en", "true", 40, "nowhere", NoSid),
     SpokenSegment(306, "g", "es", "true", 40, "participant", "p1") >>

ViewBatches ==
  { <<ViewSegments[i]>> : i \in DOMAIN ViewSegments }
    \cup { <<ViewSegments[1], ViewSegments[2]>>,
           <<ViewSegments[2], ViewSegments[1]>>,
           <<ViewSegments[3], ViewSegments[5]>>,
           <<ViewSegments[6], ViewSegments[7]>>,
           <<ViewSegments[4], ViewSegments[6]>> }

\* the bulk batch that fills the log before the views' batches
ViewBulkBatches == {BulkBatch(MaxEntries, "rising")}

\* the languages the captions language is set to
CaptionLanguages == {"en", "es"}

NextViews ==
  \/ \E lang \in CaptionLanguages \ {state.captionsLanguage} :
       Dispatch([type |-> "SET_CAPTIONS_LANGUAGE", payload |-> lang])
  \/ \E segments \in ViewBulkBatches : BulkTranscriptionReceived(segments)
  \/ \E segments \in ViewBatches : TranscriptionReceived(segments, now)

\* the batches delivered around a teardown: one final segment each
TeardownBatches ==
  { <<SpokenSegment(301, "a", "en", "true", 5, "participantSid", "p1")>>,
    <<SpokenSegment(304, "e", "es", "true", 20, "speakerSid", "p2")>> }

\* the stores and the routing of the agent's track around teardowns
NextTeardown ==
  \/ \E component \in Components : Teardown(component)
  \/ \E segments \in TeardownBatches : TranscriptionReceived(segments, now)
  \/ ParticipantConnected(AgentP, TRUE)
  \/ TrackPublished(AgentP)
  \/ TrackSubscribed(AgentP)
  \/ HostEffect
  \/ RoutingEffect

\* the language filters of the transcription views change around deliveries,
\* teardowns and runs of the routing effect
CaptionsLanguageActions ==
  { [type |-> "SET_CAPTIONS_LANGUAGE", payload |-> "en"],
    [type |-> "SET_CAPTIONS_LANGUAGE", payload |-> "es"] }

NextSubscriptions ==
  \/ NextTeardown
  \/ \E lang \in {"en", "es"} : LanguageChanged(lang)
  \/ \E action \in CaptionsLanguageActions : Dispatch(action)
  \/ \E p \in {AgentP} : ParticipantDisconnected(p)

(***************************************************************************)
(* Specifications.                                                         *)
(***************************************************************************)
\* Party and the stores right after they are mounted
Init ==
  /\ InitRouting /\ InitStores /\ InitViews /\ InitSession
  /\ InitFetch /\ InitLife /\ InitSync

\* the routing effect under the room's events; no transcription arrives
Spec == Init /\ [][NextRouting]_vars

\* the stores mounted for a local participant without publish permission
InitListener == Init /\ ~canPublish[LocalP]

\* the transcription stores under batches; no participant joins
SpecStores == InitListener /\ [][NextStores]_vars

\* the three transcription views and the captions language under batches
\* whose segments carry participant sids
SpecViews == InitListener /\ [][NextViews]_vars

\* the components and their handlers around teardowns
SpecTeardown == Init /\ [][NextTeardown]_vars

\* the single-user controls: language handlers, agent, attribute-sync effect
SpecSubscriptions == Init /\ [][NextSubscriptions]_vars

SpecSync == InitListener /\ [][NextSync]_vars

\* the session state under dispatched actions
SpecSession == InitListener /\ [][NextSession]_vars

\* the language list under changes of the agent and the outcomes of the
\* get/languages calls
SpecFetch == InitListener /\ [][NextFetch]_vars

(***************************************************************************)
(* Claims about the audio routing policy.                                  *)
(***************************************************************************)
\* the decision table of the routing policy: muted for the host whatever the
\* identity, and for a listener muted unless the identity is `agent`
TableMuted(isHost, p) == isHost \/ Identity(p) # "agent"

\* a publication carries a decision: its gain and the mute flag of every
\* attached playback element
DecisionApplied(muted, publication) ==
  /\ publication.volume = (IF muted THEN 0 ELSE 1)
  /\ \A i \in DOMAIN publication.attachedElements :
       publication.attachedElements[i] = muted

\* the remote participants the last evaluation visited
Visited == SeqToSet(handler.remoteParticipants)

\* C1: after every evaluation of handleTrackMuting made with isHost = true,
\* every publication with an audio track of every remote participant the
\* evaluation visits has volume 0 and all its attached elements muted,
\* the agent's included.
C1_HostMutesAll ==
  (evaluated /\ handler.isHost) =>
    \A p \in Visited :
      pubs[p].audioTrack => DecisionApplied(TRUE, pubs[p])

\* an evaluation as host has just muted the agent's track and its element
C1_Witness ==
  /\ evaluated /\ handler.isHost
  /\ AgentP \in Visited
  /\ pubs[AgentP].audioTrack
  /\ pubs[AgentP].attachedElements # <<>>
  /\ DecisionApplied(TRUE, pubs[AgentP])

\* C2: after every evaluation of handleTrackMuting made with isHost = false
\* (a host is resolved and is not the local participant), a visited
\* publication with an audio track is audible (volume 1, elements unmuted)
\* if and only if its participant's identity is `agent`; every other one has
\* volume 0 and its elements muted.
C2_ListenerHearsAgentOnly ==
  (evaluated /\ ~handler.isHost) =>
    \A p \in Visited :
      pubs[p].audioTrack =>
        /\ (Identity(p) = "agent" <=> pubs[p].volume = 1)
        /\ DecisionApplied(Identity(p) # "agent", pubs[p])

\* an evaluation as listener has left the agent audible and a human muted,
\* both with an attached element
C2_Witness ==
  /\ evaluated /\ ~handler.isHost
  /\ AgentP \in Visited /\ pubs[AgentP].audioTrack
  /\ pubs[AgentP].attachedElements # <<>>
  /\ pubs[AgentP].volume = 1
  /\ \E h \in HumanIds :
       /\ h \in Visited /\ pubs[h].audioTrack
       /\ pubs[h].attachedElements # <<>>
       /\ pubs[h].volume = 0

\* no effect of Party is waiting to run
Quiescent == ~hostEffectPending /\ ~routingEffectPending

\* C3: in every reachable state, when the local participant is the resolved
\* host every remote track is inaudible, and when it is not every remote
\* track of a participant other than `agent` is inaudible.
C3_AlwaysInaudible ==
  \A p \in SeqToSet(remotes) :
    pubs[p].audioTrack =>
      /\ host = LocalP => pubs[p].volume = 0
      /\ (host # LocalP /\ Identity(p) # "agent") => pubs[p].volume = 0

\* C3 (amended): in every reachable state in which no effect of Party is
\* waiting to run, when the local participant is the resolved host every
\* remote track is inaudible (volume 0), and when it is not every remote
\* track of a participant other than `agent` is inaudible.
C3_InaudibleWhenQuiescent == Quiescent => C3_AlwaysInaudible

\* no effect is pending, the local participant is a listener of a resolved
\* host, and that host's track has been silenced while the agent's plays
C3_Witness ==
  /\ Quiescent
  /\ host \in HumanIds
  /\ pubs[host].audioTrack /\ pubs[host].volume = 0
  /\ AgentP \in SeqToSet(remotes)
  /\ pubs[AgentP].audioTrack /\ pubs[AgentP].volume = 1

\* C4: in every reachable state every playback element attached to a remote
\* track has muted = true exactly when the track's volume is 0.  (A track
\* starts with volume 1 and unmuted elements, so the two can only differ on
\* a track to which a decision has been applied.)
C4_GainAndMuteAgree ==
  \A p \in RemoteIds :
    pubs[p].audioTrack =>
      \A i \in DOMAIN pubs[p].attachedElements :
        pubs[p].attachedElements[i] = (pubs[p].volume = 0)

Reverse(s) == [i \in DOMAIN s |-> s[Len(s) + 1 - i]]

\* C5: in every reachable state and for either role, evaluating the policy a
\* second time changes nothing, and evaluating it with the remote
\* participants visited in reverse order gives the same result for every
\* publication.
C5_IdempotentAndOrderFree ==
  \A isHost \in BOOLEAN :
    LET once == handleTrackMuting(isHost, remotes, pubs)
    IN /\ handleTrackMuting(isHost, remotes, once) = once
       /\ handleTrackMuting(isHost, Reverse(remotes), pubs) = once
       /\ handleTrackMuting(isHost, Reverse(remotes), once) = once

\* at least two remote participants have a track and an evaluation changes
\* the state of both
C5_Witness ==
  /\ Len(remotes) >= 2
  /\ \A p \in SeqToSet(remotes) : pubs[p].audioTrack
  /\ \E isHost \in BOOLEAN :
       \A p \in SeqToSet(remotes) :
         handleTrackMuting(isHost, remotes, pubs)[p] # pubs[p]

\* C6: once no effect is pending, every remote track has the volume and the
\* mute flags the decision table gives for the current role (host iff the
\* resolved host is the local participant) and the participant's identity.
C6_ConvergesToTable ==
  Quiescent =>
    \A p \in SeqToSet(remotes) :
      pubs[p].audioTrack =>
        DecisionApplied(TableMuted(host = LocalP, p), pubs[p])

\* C7: an evaluation leaves every visited publication without a track exactly
\* as it was, and still applies the table decision (for the role of the
\* evaluation) to every visited publication that has a track, among them the
\* ones an earlier evaluation had to defer.
C7_DeferredUntilTrack ==
  [][evaluated' =>
       \A p \in SeqToSet(handler'.remoteParticipants) :
         /\ (pubs'[p].published /\ ~pubs'[p].audioTrack) => pubs'[p] = pubs[p]
         /\ pubs'[p].audioTrack =>
              DecisionApplied(TableMuted(handler'.isHost, p), pubs'[p])
    ]_vars

\* an evaluation has just applied the decision to a track whose publication
\* an earlier evaluation had deferred, while another visited publication
\* still has no track
C7_Witness ==
  /\ evaluated
  /\ \E p \in Visited, q \in Visited :
       /\ p \in deferred /\ pubs[p].audioTrack
       /\ pubs[p].volume = 0
       /\ pubs[q].published /\ ~pubs[q].audioTrack

(***************************************************************************)
(* Claims about the transcript log and the caption store.                  *)
(***************************************************************************)
\* C8: in every reachable state and for every batch, ingesting the batch a
\* second time leaves the caption store and the transcript log as the first
\* ingest left them (the second ingest at the same clock value or later).
C8_IngestTwiceSame ==
  \A b \in SmallBatches :
    /\ updateTranscriptions(updateTranscriptions(transcriptions, b), b)
         = updateTranscriptions(transcriptions, b)
    /\ \A c1 \in {now, now + 1} : \A c2 \in {c1, c1 + 1} :
         handle(handle(items, b, language, c1), b, language, c2)
           = handle(items, b, language, c1)

\* C9: every entry of the log carries the time its id was given at its first
\* accepted delivery and the text of its latest accepted delivery.
C9_FirstTimeLatestText ==
  \A i \in DOMAIN items :
    /\ items[i].id \in DOMAIN firstTime
    /\ items[i].time = firstTime[items[i].id]
    /\ items[i].text = lastText[items[i].id]

\* the ids of the entries of the log
LogIds == {items[i].id : i \in DOMAIN items}

\* C10: once more than 100 distinct segments have been accepted, every id
\* delivered once, the log holds exactly 100 entries, each an accepted
\* segment with the time it was given, and no accepted segment that is
\* missing from the log has a greater time than an entry of the log.
C10_KeepsLatestHundred ==
  (~redelivered /\ Cardinality(DOMAIN firstTime) > MaxEntries) =>
    /\ Len(items) = MaxEntries
    /\ Cardinality(LogIds) = MaxEntries
    /\ LogIds \subseteq DOMAIN firstTime
    /\ \A i \in DOMAIN items : items[i].time = firstTime[items[i].id]
    /\ \A i \in DOMAIN items : \A d \in DOMAIN firstTime \ LogIds :
         firstTime[d] <= items[i].time

\* more than 100 distinct segments have arrived in several batches; a segment
\* of a later batch is in the log and pushed a segment of the first batch out
C10_Witness ==
  /\ ~redelivered
  /\ deliveries >= 1
  /\ Cardinality(DOMAIN firstTime) > MaxEntries
  /\ Len(items) = MaxEntries
  /\ \E id \in LogIds : id > MaxEntries + 1
  /\ 1 \in DOMAIN firstTime \ LogIds

(***************************************************************************)
(* Claims about the finality filter and the default language.              *)
(***************************************************************************)
\* the segments of a batch that are not marked interim
NotInterim(b) == SelectSeq(b, LAMBDA s : s.final # "false")

\* the language a segment counts for: "en" when it has none or an empty one
LanguageOrEn(s) == IF s.language \in {"", NoLanguage} THEN "en" ELSE s.language

\* segment i of batch b is not interim and passes the current language filter
Counts(b, i) ==
  /\ b[i].final # "false"
  /\ language = NoLanguage \/ LanguageOrEn(b[i]) = language

\* the time the log gives the id of segment i of batch b: the time of its
\* entry, else the time of the first counting occurrence of the id in b
TimeInLog(b, i, clock) ==
  IF \E j \in DOMAIN items : items[j].id = b[i].id
    THEN items[CHOOSE j \in DOMAIN items : items[j].id = b[i].id].time
    ELSE LET k == CHOOSE k \in DOMAIN b :
                    /\ b[k].id = b[i].id /\ Counts(b, k)
                    /\ \A m \in 1..(k - 1) : ~(b[m].id = b[i].id /\ Counts(b, m))
         IN IF b[k].firstReceivedTime = NoTime THEN clock
            ELSE b[k].firstReceivedTime

\* ingesting batch b leaves the log as ingesting only its segments that are
\* not interim does; a batch of interim segments leaves the log unchanged
InterimChangesNothing(b, clock) ==
  LET after == handle(items, b, language, clock)
  IN /\ after = handle(items, NotInterim(b), language, clock)
     /\ (\A i \in DOMAIN b : b[i].final = "false") => after = items

\* batches with the interim delivery of id 301 (text "c") alone, before and
\* after deliveries that are not interim, and such deliveries alone
InterimBatches ==
  { <<ViewSegments[2]>>,
    <<ViewSegments[1], ViewSegments[2]>>,
    <<ViewSegments[2], ViewSegments[1]>>,
    <<ViewSegments[2], ViewSegments[3]>>,
    <<ViewSegments[3]>>,
    <<ViewSegments[1]>> }

\* C11: in every reachable state of the log, a delivery with final = false
\* adds nothing and changes no entry, and a delivery of an id with
\* final = true or without the flag (passing the language filter) puts the id
\* into the log.
C11_InterimIgnoredFinalAdded ==
  \A b \in InterimBatches : \A clock \in {now} :
    /\ InterimChangesNothing(b, clock)
    /\ \A i \in DOMAIN b :
         Counts(b, i) =>
           \E j \in DOMAIN handle(items, b, language, clock) :
             handle(items, b, language, clock)[j].id = b[i].id

\* C11 (amended): as C11, but a delivery of an id with final = true or
\* without the flag puts the id into the log unless the log is full (100
\* entries) of entries that are not older than the id's entry would be.
C11_InterimIgnoredFinalAddedUnlessTrimmed ==
  \A b \in InterimBatches : \A clock \in {now} :
    LET after == handle(items, b, language, clock)
    IN /\ InterimChangesNothing(b, clock)
       /\ \A i \in DOMAIN b :
            Counts(b, i) =>
              \/ \E j \in DOMAIN after : after[j].id = b[i].id
              \/ /\ Len(after) = MaxEntries
                 /\ \A j \in DOMAIN after : after[j].time >= TimeInLog(b, i, clock)

\* the log holds id 301 with its final text "a" and not yet 302; the interim
\* delivery of 301 (text "c") leaves the log as it is, and the delivery of
\* 302 without a flag puts 302 into the log
C11_Witness ==
  /\ \E j \in DOMAIN items : items[j].id = 301 /\ items[j].text = "a"
  /\ \A j \in DOMAIN items : items[j].id # 302
  /\ handle(items, <<ViewSegments[2]>>, language, now) = items
  /\ \E j \in DOMAIN handle(items, <<ViewSegments[3]>>, language, now) :
       handle(items, <<ViewSegments[3]>>, language, now)[j].id = 302

\* the position of a segment in the bucket of a store, if any
InBucket(store, key, s) ==
  key \in DOMAIN store /\ \E i \in DOMAIN store[key] : store[key][i] = s

\* the segments the views receive whose language is empty or absent
UnspecifiedLanguage ==
  {i \in DOMAIN ViewSegments : ViewSegments[i].language \in {"", NoLanguage}}

\* C12: in every reachable state, ingesting a segment whose language is the
\* empty string or absent puts it into the "en" bucket of the caption store
\* and into no other bucket, gives its log entry the language "en", and lets
\* it pass the index's language filter "en" and no other filter.
C12_DefaultLanguageEn ==
  \A i \in UnspecifiedLanguage :
    LET s == ViewSegments[i]
        store == updateTranscriptions(transcriptions, <<s>>)
        log == handle(items, <<s>>, "en", now)
    IN /\ InBucket(store, "en", s)
       /\ \A key \in DOMAIN store \ {"en"} : ~InBucket(store, key, s)
       /\ \E j \in DOMAIN log : log[j].id = s.id /\ log[j].language = "en"
       /\ handle(items, <<s>>, "es", now) = items
       /\ handleByParticipant(byParticipant, <<s>>, "en")[ResolveSid(s)] = s.text
       /\ handleByParticipant(byParticipant, <<s>>, "es") = byParticipant

(***************************************************************************)
(* Claims about the per-participant index.                                 *)
(***************************************************************************)
\* C16: in every reachable state the index maps exactly the participants to
\* which a delivered segment that passed the language filter resolved, each
\* to the text of the last such segment in delivery order; a segment without
\* a participant sid changes nothing.
C16_IndexLastWriteWins ==
  /\ byParticipant = lastSpoken
  /\ NoSid \notin DOMAIN byParticipant
  /\ handleByParticipant(byParticipant, <<ViewSegments[6]>>,
                         state.captionsLanguage) = byParticipant

\* after two batches the index holds the latest texts of p1 and p2, p1's from
\* the batch that also carried the segment without a sid (305, in the log)
C16_Witness ==
  /\ deliveries = 2
  /\ DOMAIN byParticipant = {"p1", "p2"}
  /\ byParticipant["p1"] = "g"
  /\ byParticipant["p2"] \in {"b", "e"}
  /\ \E j \in DOMAIN items : items[j].id = 305

\* C17: in every reachable state, the delivery of a segment marked interim
\* (final = false) leaves the per-participant index unchanged.
C17_InterimNeverChangesIndex ==
  \A i \in DOMAIN ViewSegments :
    ViewSegments[i].final = "false" =>
      handleByParticipant(byParticipant, <<ViewSegments[i]>>,
                          state.captionsLanguage) = byParticipant

MultiState(lang) ==
  [state EXCEPT !.mode = "multi", !.captionsLanguage = lang]

\* the bucket of a language in the caption store
Bucket(lang) ==
  IF lang \in DOMAIN transcriptions THEN transcriptions[lang] ELSE <<>>

\* C14: in multi mode, for every captions language, the caption view renders
\* min(2, size of the bucket) segments of the bucket, in ascending time
\* order, none of them older than a segment of the bucket that is not
\* rendered; of two rendered segments the first is de-emphasised
\* (opacity-50) and the second at full emphasis (opacity-100), a single one
\* is at full emphasis.
C14_MultiShowsLastTwo ==
  \A lang \in CaptionLanguages :
    LET shown == Captions(transcriptions, MultiState(lang))
        bucket == Bucket(lang)
        at(i) == CHOOSE k \in DOMAIN bucket : bucket[k].id = shown[i].key
    IN /\ Len(shown) = IF Len(bucket) >= 2 THEN 2 ELSE Len(bucket)
       /\ \A i \in DOMAIN shown :
            /\ \E k \in DOMAIN bucket :
                 bucket[k].id = shown[i].key /\ bucket[k].text = shown[i].text
            /\ \A k \in DOMAIN bucket :
                 (\A j \in DOMAIN shown : shown[j].key # bucket[k].id) =>
                   bucket[k].firstReceivedTime <= bucket[at(i)].firstReceivedTime
       /\ Len(shown) = 2 =>
            /\ shown[1].key # shown[2].key
            /\ bucket[at(1)].firstReceivedTime <= bucket[at(2)].firstReceivedTime
            /\ shown[1].className = "opacity-50"
            /\ shown[2].className = "opacity-100"
       /\ Len(shown) = 1 => shown[1].className = "opacity-100"

\* the "es" bucket holds e (time 20) and g (time 40) and the "en" bucket more
\* than two segments: the view of "es" shows e de-emphasised, then g
C14_Witness ==
  /\ Len(Bucket("en")) > 2
  /\ Len(Bucket("es")) = 2
  /\ Len(Captions(transcriptions, MultiState("es"))) = 2
  /\ Captions(transcriptions, MultiState("es"))[1].text = "e"
  /\ Captions(transcriptions, MultiState("es"))[2].text = "g"
  /\ Len(Captions(transcriptions, MultiState("en"))) = 2

\* the session state of the single mode with an input and an output language
SingleState(inputLanguage, outputLanguage) ==
  [state EXCEPT !.mode = "single", !.inputLanguage = inputLanguage,
                !.outputLanguage = outputLanguage]

\* texts is empty if the bucket is, and else the text of one segment of the
\* bucket that has the greatest time
LatestOf(texts, bucket) ==
  /\ Len(texts) = IF bucket = <<>> THEN 0 ELSE 1
  /\ \A i \in DOMAIN texts :
       \E k \in DOMAIN bucket :
         /\ bucket[k].text = texts[i]
         /\ \A m \in DOMAIN bucket :
              bucket[m].firstReceivedTime <= bucket[k].firstReceivedTime

\* C15: in single mode, for every input and output language, the caption
\* view renders for each of the two buckets nothing if the bucket is empty
\* and else one segment, one with the greatest time of its bucket.
C15_SingleShowsLatestOfEach ==
  \A inputLanguage \in CaptionLanguages : \A outputLanguage \in CaptionLanguages :
    LET shown == Captions(transcriptions, SingleState(inputLanguage, outputLanguage))
    IN /\ LatestOf(shown.input, Bucket(inputLanguage))
       /\ LatestOf(shown.output, Bucket(outputLanguage))

\* the "en" bucket holds several segments and the "es" bucket none: the view
\* shows the latest "en" text as input and no output; with the languages
\* exchanged it shows no input
C15_Witness ==
  /\ Len(Bucket("en")) >= 2
  /\ Bucket("es") = <<>>
  /\ Len(Captions(transcriptions, SingleState("en", "es")).input) = 1
  /\ Len(Captions(transcriptions, SingleState("en", "es")).output) = 0
  /\ Len(Captions(transcriptions, SingleState("es", "en")).input) = 0

\* the caption store and the index before any batch
FreshStore == <<>>

\* C18: a single segment that is not interim and carries a participant sid,
\* delivered as one batch to fresh views: the caption store holds its text
\* under its id in the bucket of its language ("en" if it has none), the
\* caption view in multi mode with that captions language renders exactly
\* that text, and the index (with that language filter) maps the
\* participant to it.
C18_ViewsAgreeOnOneSegment ==
  (transcriptions = FreshStore /\ byParticipant = FreshStore) =>
    \A i \in DOMAIN ViewSegments :
      LET s == ViewSegments[i]
          L == LanguageOrEn(s)
          store == updateTranscriptions(transcriptions, <<s>>)
          shown == Captions(store, MultiState(L))
      IN (s.final # "false" /\ ResolveSid(s) # NoSid) =>
           /\ L \in DOMAIN store
           /\ \E k \in DOMAIN store[L] :
                store[L][k].id = s.id /\ store[L][k].text = s.text
           /\ Len(shown) = 1 /\ shown[1].text = s.text
           /\ handleByParticipant(byParticipant, <<s>>, L)
                = [p \in {ResolveSid(s)} |-> s.text]

(***************************************************************************)
(* Claims on the session reducer and on the fetch of the language list.    *)
(***************************************************************************)
\* the variants of Action
KnownTypes ==
  { "SET_TOKEN", "SET_SERVER_URL", "SET_SHOULD_CONNECT", "SET_CAPTIONS_ENABLED",
    "SET_CAPTIONS_LANGUAGE", "SET_IS_HOST", "SET_MODE", "SET_CURRENT_SPEAKER",
    "SET_INPUT_LANGUAGE", "SET_OUTPUT_LANGUAGE", "FLIP_LANGUAGES" }

UnknownActions == {a \in SessionActions : a.type \notin KnownTypes}

\* C19: dispatching an action whose type is no variant known to the reducer
\* raises an error and gives no new session state: in every state the reducer
\* throws on each such action and returns no state, and the step in which the
\* error is raised leaves the session state as it was.
C19_UnknownActionThrows ==
  [][ /\ \A a \in UnknownActions :
           /\ reducer(state, a).thrown
           /\ "state" \notin DOMAIN reducer(state, a)
      /\ (thrown' /\ ~thrown) => state' = state
      /\ state' # state => ~thrown' ]_vars

C19_Witness ==
  /\ thrown
  /\ state # initialState
  /\ UnknownActions # {}

\* the runs that have left getLanguages
HasReturned(run) == run.at = "returned"

Audible(ps) ==
  [p \in RemoteIds |->
     [volume |-> ps[p].volume, attachedElements |-> ps[p].attachedElements]]

\* C21: after a component is torn down none of its handlers is registered on
\* the room: a later batch changes neither the items of an unmounted log, nor
\* the store of unmounted captions, nor the index of an unmounted Party, and a
\* later trackSubscribed changes no gain and no mute flag once Party is
\* unmounted, whether or not its routing effect had resolved a host.
C21_NoHandlerAfterTeardown ==
  [][ /\ {h \in Handlers : listeners[h] > 0}
           \subseteq UNION {HandlersOf(c) : c \in mounted}
      /\ "party" \notin mounted => ~handler.registered
      /\ "log" \notin mounted => items' = items
      /\ "captions" \notin mounted => transcriptions' = transcriptions
      /\ "party" \notin mounted =>
           /\ byParticipant' = byParticipant
           /\ Audible(pubs') = Audible(pubs) ]_vars

\* everything is torn down while no host was resolved; afterwards a batch has
\* been delivered and the agent's track has been subscribed
C21_Witness ==
  /\ mounted = {}
  /\ host = NoHost
  /\ deliveries > 0
  /\ items = <<>>
  /\ transcriptions = <<>>
  /\ byParticipant = <<>>
  /\ pubs[AgentP].audioTrack
  /\ pubs[AgentP].volume = 1

\* C22: once a host has been resolved to a participant, the resolved host
\* stays that participant for as long as it is present, whatever happens to
\* the participant list and to the permissions of the participants before it.
C22_ResolvedHostIsSticky ==
  [][ (/\ host \notin {NoHost, Departed}
       /\ host \in {LocalP} \cup SeqToSet(remotes'))
        => host' = host ]_vars

\* C23: the participant with the reserved identity `agent` is never the
\* resolved host.
C23_AgentNeverHost == host # AgentP

(***************************************************************************)
(* Claims about identity, order and re-delivery in the stores.             *)
(***************************************************************************)
\* the entry of an id in a bucket of the caption store
StoredAt(store, key, id) == store[key][CHOOSE i \in IndexOf(store[key], id) : TRUE]

\* C24: in every reachable state of the caption store, delivering a segment
\* whose id is already stored in its language bucket replaces the stored text
\* by the delivered one and keeps the stored firstReceivedTime.
C24_CaptionKeepsFirstTime ==
  \A n \in DOMAIN SmallSegments :
    LET s == SmallSegments[n]
        key == CaptionLanguage(s)
    IN (key \in DOMAIN transcriptions /\ IndexOf(transcriptions[key], s.id) # {})
         => LET before == StoredAt(transcriptions, key, s.id)
                after == StoredAt(updateTranscriptions(transcriptions, <<s>>),
                                  key, s.id)
            IN /\ after.text = s.text
               /\ after.firstReceivedTime = before.firstReceivedTime

\* C25: the caption store never holds a segment that was delivered with
\* final = false.
C25_CaptionStoreHoldsNoInterim ==
  \A key \in DOMAIN transcriptions :
    \A i \in DOMAIN transcriptions[key] : transcriptions[key][i].final # "false"

\* C26: in every reachable state of a transcript log that is not full,
\* ingesting an accepted segment leaves every item of the same id and
\* another language in the log, with its text, and adds an item of the
\* segment's id and language.
C26_LogIdentityPerLanguage ==
  \A n \in DOMAIN SmallSegments :
    LET s == SmallSegments[n]
        after == handle(items, <<s>>, language, now)
    IN (AcceptedByLog(s, language) /\ Len(items) < MaxEntries)
         => /\ \A i \in DOMAIN items :
                 (items[i].id = s.id /\ items[i].language # EffectiveLanguage(s))
                   => \E j \in DOMAIN after :
                        /\ after[j].id = items[i].id
                        /\ after[j].language = items[i].language
                        /\ after[j].text = items[i].text
            /\ \E j \in DOMAIN after :
                 after[j].id = s.id /\ after[j].language = EffectiveLanguage(s)

\* the segments the views receive that are new to the log and that the log
\* accepts
NewToLog ==
  {n \in DOMAIN ViewSegments :
     /\ AcceptedByLog(ViewSegments[n], language)
     /\ IndexOf(items, ViewSegments[n].id) = {}}

\* C27: in every reachable state of a transcript log that is not full, a
\* segment that is finalized for the first time takes the next free row of
\* its language in the paired log, and the rows before it keep their
\* segments: the rows of a language are in arrival order, whatever the
\* firstReceivedTime values are.
C27_RowsInArrivalOrder ==
  \A n \in NewToLog :
    LET s == ViewSegments[n]
        lang == EffectiveLanguage(s)
        before == content(items, "single", lang, lang)
        after == content(handle(items, <<s>>, language, now), "single", lang, lang)
    IN Len(items) < MaxEntries
         => /\ Len(after) = Len(before) + 1
            /\ \A i \in DOMAIN before : after[i].input = before[i].input
            /\ after[Len(after)].input = s.text

\* C28: in every reachable state of the transcript log the items are in
\* non-decreasing order of time, there are at most 100 of them, and no two
\* of them have the same id.
C28_SortedCappedUniqueIds ==
  /\ \A i, j \in DOMAIN items : i < j => items[i].time <= items[j].time
  /\ Len(items) <= MaxEntries
  /\ \A i, j \in DOMAIN items : items[i].id = items[j].id => i = j

\* a full log with more than one time value, after an id was delivered again
\* and after an item was trimmed
C28_Witness ==
  /\ Len(items) = MaxEntries
  /\ items[1].time < items[MaxEntries].time
  /\ redelivered
  /\ DOMAIN firstTime # LogIds

\* the ids of the bulk batches; a bulk batch is the first batch delivered and
\* carries its ids in ascending order, so if one was delivered (id 2 occurs in
\* no other batch) its ids were first accepted in ascending order and before
\* every other id
BulkIds == 1..(MaxEntries + 1)

FirstAcceptedBefore(a, b) ==
  /\ 2 \in DOMAIN firstTime
  /\ a \in BulkIds
  /\ b \in BulkIds => a < b

\* C29: in every reachable state of the transcript log, of two items with
\* equal time the one whose id was first accepted earlier comes first.
C29_TiesInFirstAcceptedOrder ==
  \A i, j \in DOMAIN items :
    (i < j /\ items[i].time = items[j].time)
      => ~FirstAcceptedBefore(items[j].id, items[i].id)

\* the batches of two segments with one id
SameIdBatches ==
  {b \in SmallBatches : Len(b) = 2 /\ b[1].id = b[2].id}

\* C30: in every reachable state, a batch that contains an id twice leaves
\* the transcript log and the caption store as the two segments delivered one
\* after the other in one-segment batches leave them.
C30_BatchAsSingleDeliveries ==
  \A b \in SameIdBatches :
    /\ updateTranscriptions(transcriptions, b)
         = updateTranscriptions(updateTranscriptions(transcriptions, <<b[1]>>),
                                <<b[2]>>)
    /\ handle(items, b, language, now)
         = handle(handle(items, <<b[1]>>, language, now), <<b[2]>>, language, now)

(***************************************************************************)
(* Claims about the transitions of the session state.                      *)
(***************************************************************************)
\* the field a SET_X action is about
FieldOf(type) ==
  CASE type = "SET_TOKEN" -> "token"
    [] type = "SET_SERVER_URL" -> "serverUrl"
    [] type = "SET_SHOULD_CONNECT" -> "shouldConnect"
    [] type = "SET_CAPTIONS_ENABLED" -> "captionsEnabled"
    [] type = "SET_CAPTIONS_LANGUAGE" -> "captionsLanguage"
    [] type = "SET_IS_HOST" -> "isHost"
    [] type = "SET_MODE" -> "mode"
    [] type = "SET_CURRENT_SPEAKER" -> "currentSpeaker"
    [] type = "SET_INPUT_LANGUAGE" -> "inputLanguage"
    [] type = "SET_OUTPUT_LANGUAGE" -> "outputLanguage"

KnownActions == {a \in SessionActions : a.type \in KnownTypes}

FlipFields == {"inputLanguage", "outputLanguage", "currentSpeaker"}

\* C32: in every reachable session state, the reducer gives for a SET_X
\* action the state with field X set to the payload and every other field as
\* it was, and for FLIP_LANGUAGES the state with inputLanguage and
\* outputLanguage exchanged, currentSpeaker the other of user1 and user2, and
\* every other field as it was.
C32_TransitionsChangeOwnFields ==
  \A a \in KnownActions :
    LET result == reducer(state, a)
    IN /\ ~result.thrown
       /\ DOMAIN result.state = DOMAIN state
       /\ IF a.type = "FLIP_LANGUAGES"
            THEN /\ result.state.inputLanguage = state.outputLanguage
                 /\ result.state.outputLanguage = state.inputLanguage
                 /\ state.currentSpeaker \in {"user1", "user2"}
                 /\ result.state.currentSpeaker
                      \in {"user1", "user2"} \ {state.currentSpeaker}
                 /\ \A f \in DOMAIN state \ FlipFields :
                      result.state[f] = state[f]
            ELSE /\ result.state[FieldOf(a.type)] = a.payload
                 /\ \A f \in DOMAIN state \ {FieldOf(a.type)} :
                      result.state[f] = state[f]

\* a state reached by a flip and by SET_X actions on other fields
C32_Witness ==
  /\ state.inputLanguage = "es"
  /\ state.outputLanguage = "en"
  /\ state.currentSpeaker = "user2"
  /\ state.mode = "multi"
  /\ ~state.captionsEnabled
  /\ state.captionsLanguage = "es"
  /\ ~state.isHost
  /\ ~thrown

\* the FLIP_LANGUAGES action
FlipAction == [type |-> "FLIP_LANGUAGES"]

\* C38: in every reachable session state, FLIP_LANGUAGES applied twice gives
\* the state it started from, equal in every field.
C38_FlipTwiceIsIdentity ==
  LET once == reducer(state, FlipAction)
      twice == reducer(once.state, FlipAction)
  IN /\ ~once.thrown
     /\ ~twice.thrown
     /\ twice.state = state
     /\ once.state # state

\* a state whose languages differ from the initial ones and in which user2
\* has the turn
C38_Witness ==
  /\ state.inputLanguage = "es"
  /\ state.outputLanguage = "es"
  /\ state.currentSpeaker = "user2"
  /\ state.token = "t2"
  /\ ~thrown

(***************************************************************************)
(* Claims about snapshots of the caption store.                            *)
(***************************************************************************)
\* C31: in every reachable state and for every batch, the snapshot of the
\* caption store that existed before an ingest holds after the ingest what it
\* held before, in each of its language buckets, and the ingest returns a
\* snapshot that holds the merged store.
C31_IngestLeavesOldSnapshot ==
  \A b \in SmallBatches :
    LET prev == SnapshotOf(transcriptions)
        after == updateTranscriptionsInPlace(prev, transcriptions, b)
    IN /\ Contents(after.snapshot, after.heap)
            = updateTranscriptions(transcriptions, b)
       /\ Contents(prev, after.heap) = transcriptions

(***************************************************************************)
(* Claims about the attribute-sync effect of the single-user controls.     *)
(***************************************************************************)
\* no change of the effect's dependencies is waiting for the effect
Settled == ~syncPending /\ ~thrown

\* the captions language of single mode: the language the other speaker hears
ExpectedCaptions ==
  IF state.currentSpeaker = "user1" THEN state.outputLanguage
  ELSE state.inputLanguage

C34_OneHandlerPerView ==
  /\ \A c \in mounted : \A h \in HandlersOf(c) \ {"routing"} : listeners[h] = 1
  /\ listeners["routing"] <= 1
  /\ listeners["routing"] = 1 <=> handler.registered

\* both language filters were changed, the routing effect ran twice with a
\* resolved host and a batch was delivered to all three views
C34_Witness ==
  /\ mounted = Components
  /\ language = "es"
  /\ state.captionsLanguage = "es"
  /\ handler.registered
  /\ handler.remoteParticipants = <<>>
  /\ host = Departed
  /\ items # <<>>
  /\ "p2" \in DOMAIN byParticipant

\* the language of the segment an index text belongs to
IndexedLanguage(text) ==
  EffectiveLanguage(
    ViewSegments[CHOOSE i \in DOMAIN ViewSegments : ViewSegments[i].text = text])

\* C35: every entry of the per-participant index holds the text of a segment
\* whose effective language is the language filter in force
\* (state.captionsLanguage), also after the filter was changed while entries
\* exist
C35_IndexMatchesCurrentFilter ==
  \A p \in DOMAIN byParticipant :
    IndexedLanguage(byParticipant[p]) = state.captionsLanguage

\* C36: a resolved host is never reset to unresolved; while no participant of
\* the list has publish permission the resolved host stays the same
\* participant (possibly one who left) and the local role stays, and a run of
\* the routing effect with a resolved host leaves its handler registered
C36_ResolvedHostIsKept ==
  [][ host # NoHost =>
        /\ host' # NoHost
        /\ Find(participants', canPublish') = NoHost =>
             /\ host' \in {host, Departed}
             /\ (host' = LocalP) <=> (host = LocalP)
        /\ (routingEffectPending /\ ~routingEffectPending') =>
             handler'.registered ]_vars

\* the host left, nobody in the room has publish permission, and the effects
\* have run: the handler is registered for the remaining participants
C36_Witness ==
  /\ host = Departed
  /\ remotes # <<>>
  /\ Find(participants, canPublish) = NoHost
  /\ ~hostEffectPending
  /\ ~routingEffectPending
  /\ handler.registered
  /\ handler.remoteParticipants = remotes
====
